---- MODULE Spec2Model ----
(***************************************************************************)
(* State-machine model of the LPG monitor firmware                         *)
(* (finalLPGSketch/finalLPGSketch.ino): boot (setup), the cooperative loop *)
(* (server.handleClient followed by the connectivity / cloud-sync body),   *)
(* the provisioning HTTP handlers, and the radio environment; and of the   *)
(* low-gas notification check of the mobile app's device list              *)
(* (lpg_app/lib/screens/lpg_device_list_screen.dart).                      *)
(***************************************************************************)
EXTENDS Integers, Sequences, FiniteSets, Bags, TLC

VARIABLES
    pc,                                 \* "boot" | "handleClient" | "loopBody"
    nvs,                                \* Preferences namespace "lpg-config": key -> string
    storedSSID, storedPassword, storedDeviceName,
    storedFirebaseEmail, storedFirebasePassword,
    wifiMode,                           \* WiFi.getMode()
    linkUp,                             \* WiFi.status() == WL_CONNECTED
    serverRunning,                      \* WebServer listening (begin .. stop)
    _isFirebaseInitialized,
    now,                                \* millis()
    lastDisplayUpdateTime,
    lastCurrentWeightUpdateTimestamp,
    lastHistorySendTimestamp,
    _lastSentHistoryWeight,
    auth,                               \* auth.user.email, auth.user.password
    \* ---- observation variables (record what the last operation did) ----
    boot,                               \* what setup() saw: forced path, stored pair,
                                        \* levels read from the button, scale.is_ready()
    attempted,                          \* connectToWiFi was called since boot
    conn,                               \* connectToWiFi call of the last firmware step
    lastRequest, lastResponse,          \* request served in this loop iteration
    lastAccepted,                       \* args and resulting store of the last 200
    linkSeen,                           \* result of the loop's last WiFi.status() check
    sessionInits,                       \* Firebase.begin calls made in the current connection
                                        \* lifetime (0 while the link is down)
    stamped,                            \* uptime at which each of the three timestamps
                                        \* was taken
    session,                            \* credentials given to the Firebase.begin call
                                        \* that set the latch now standing
    eval,                               \* history evaluation of the last loop body
    fastLog,                            \* last two updateMainDeviceDocument calls
    histLog,                            \* last two addHistoryEntryToFirebase calls
    \* ---- mobile app, device list screen ----
    devices,                            \* latest snapshot of the device stream
    _userLowGasThreshold,
    _notifiedDevices,                   \* device -> bool, keys added on first write
    tasks,                              \* suspended _checkAndNotifyLowGas invocations
    needsBuild,                         \* a rebuild has been scheduled
    shown                               \* showNotification calls per device since its
                                        \* level was last above the threshold

appVars == <<devices, _userLowGasThreshold, _notifiedDevices, tasks,
             needsBuild, shown>>

deviceVars == <<pc, nvs, storedSSID, storedPassword, storedDeviceName,
          storedFirebaseEmail, storedFirebasePassword, wifiMode, linkUp,
          serverRunning, _isFirebaseInitialized, now, lastDisplayUpdateTime,
          lastCurrentWeightUpdateTimestamp, lastHistorySendTimestamp,
          _lastSentHistoryWeight, boot, attempted, conn,
          lastRequest, lastResponse, lastAccepted, linkSeen, sessionInits, eval,
          fastLog, histLog, auth, session, stamped>>

vars == <<deviceVars, appVars>>

credVars == <<storedSSID, storedPassword, storedDeviceName,
              storedFirebaseEmail, storedFirebasePassword, auth>>
timerVars == <<lastDisplayUpdateTime, lastCurrentWeightUpdateTimestamp,
               lastHistorySendTimestamp, _lastSentHistoryWeight, stamped>>
syncLogVars == <<eval, fastLog, histLog>>
httpLogVars == <<lastRequest, lastResponse, lastAccepted>>



-----------------------------------------------------------------------------
(* Bounds of the model *)

NumSamples == 2         \* button samples taken in the boot window
FastHorizon == 40000    \* time horizon (ms) of a run, fast-update cadence
LiveSlack == 20000      \* room (ms) left before the horizon for a next tick
MaxNow == 320000
SessionHorizon == 20000
MaxTasks == 3
WrapWindow == 10000
HistoryLead == 285000        \* time horizon (ms) of a run, history cadence

(* Program constants *)

displayUpdateInterval == 500
WEIGHT_CHANGE_THRESHOLD_GRAMS == 250
MAX_FIREBASE_HISTORY_INTERVAL_MS == 300000
CURRENT_WEIGHT_UPDATE_INTERVAL_MS == 10000
MAX_CONNECT_ATTEMPTS == 40
INITIAL_LAST_SENT_WEIGHT == -9999

NVS_SSID_KEY == "ssid"
NVS_PASS_KEY == "password"
NVS_DEV_NAME_KEY == "dev_name"
NVS_FIREBASE_EMAIL_KEY == "fb_email"
NVS_FIREBASE_PASS_KEY == "fb_pass"
NvsKeys == {NVS_SSID_KEY, NVS_PASS_KEY, NVS_DEV_NAME_KEY,
            NVS_FIREBASE_EMAIL_KEY, NVS_FIREBASE_PASS_KEY}

DEFAULT_DEVICE_NAME == "Unnamed Device"

FormFields == {"ssid", "pass", "fb_email", "fb_pass", "dev_name"}

\* unsigned long is 32 bits on the target; TLC's integers are 32-bit signed,
\* so the wrap-around modulus of the millisecond counter is taken as 2^30.
ULONG_MODULUS == 2^30

-----------------------------------------------------------------------------
(* Value universes *)

Strings == {"", "a"}

Levels == {"LOW", "HIGH"}

EmptyStore == [k \in {} |-> ""]

\* Store contents the firmware can leave behind: nothing (first boot, or
\* after preferences.clear()), or all five keys (after a submission).
ReachableStores == {EmptyStore} \cup [NvsKeys -> Strings]

\* FirebaseAuth as declared (line 70), and as assigned at lines 221-222 and
\* 400-401
NoAuth == [email |-> "", password |-> ""]
AuthFrom(email, password) == [email |-> email, password |-> password]

\* Observation records with nothing to report
\* sta: how the step switched the radio to station mode ("none": it did
\* not; "clean": with the server stopped and the access point down; "dirty":
\* otherwise); begin: how it called server.begin ("none"; "fresh": on a
\* stopped server; "again": on a running one)
NoConnect == [called |-> FALSE, polls |-> 0, ok |-> FALSE, up |-> FALSE,
              sta |-> "none", begin |-> "none"]
Called(res, up, sta, begin) ==
    [called |-> TRUE, polls |-> res.polls, ok |-> res.ok, up |-> up,
     sta |-> sta, begin |-> IF res.ok THEN "none" ELSE begin]
Started(begin) ==
    [called |-> FALSE, polls |-> 0, ok |-> FALSE, up |-> FALSE,
     sta |-> "none", begin |-> begin]
NoBoot == [forced |-> FALSE, hadPair |-> FALSE, levels |-> <<>>,
           ready |-> FALSE]
NoRequest == [method |-> "", path |-> "", complete |-> FALSE]
Seen(req) == [method |-> req.method, path |-> req.path,
              complete |-> FormFields \subseteq DOMAIN req.args]
NoResponse == [code |-> 0, type |-> "", body |-> [status |-> ""]]
NoAccepted == [valid |-> FALSE, repeat |-> FALSE, args |-> EmptyStore,
               store |-> EmptyStore, steps |-> <<>>]
NoStamps == [display |-> 0, fast |-> 0, history |-> 0]
NoSession == [begun |-> FALSE, email |-> "", password |-> ""]
Begun(a) == [begun |-> TRUE, email |-> a.email, password |-> a.password]
NoEval == [ready |-> FALSE, t |-> 0, w |-> 0]
\* n: 1 once a call was made; flip changes at every call; t, w, ok: time,
\* weight and result of the last call; pt, pw, pok: of the call before it
NoWrite == [n |-> 0, flip |-> FALSE, t |-> 0, w |-> 0, ok |-> TRUE,
            pt |-> 0, pw |-> 0, pok |-> TRUE]
LoggedFast(log, t, ok) ==
    [n |-> 1, flip |-> ~log.flip, t |-> t, w |-> 0, ok |-> ok,
     pt |-> 0, pw |-> 0, pok |-> log.ok]
LoggedHistory(log, t, w, ok) ==
    [n |-> 1, flip |-> ~log.flip, t |-> t, w |-> w, ok |-> ok,
     pt |-> log.t, pw |-> log.w, pok |-> TRUE]

-----------------------------------------------------------------------------
(* Preferences (NVS) *)

getString(store, key, default) ==
    IF key \in DOMAIN store THEN store[key] ELSE default

\* a write that appends to what the key already holds
putString_Append(store, key, value) ==
    [k \in (DOMAIN store) \cup {key} |->
        IF k = key
        THEN (IF key \in DOMAIN store THEN store[key] \o value ELSE value)
        ELSE store[k]]

putString(store, key, value) ==
    [k \in (DOMAIN store) \cup {key} |-> IF k = key THEN value ELSE store[k]]


\* the namespace left as it was
clearStore_Kept(store) == store

\* only the network name and password erased
clearStore_OnlyWiFi(store) ==
    [k \in DOMAIN store \ {NVS_SSID_KEY, NVS_PASS_KEY} |-> store[k]]

\* preferences.clear()
clearStore(store) == EmptyStore

-----------------------------------------------------------------------------
(* Inputs of one specification: elapsed times and sensor readings *)

\* boot: time setup may take; durs: time one blocking step of the loop
\* (sensor averaging, delay, connect) may take; sample: time one short
\* sampling block may take; fastWrite, histWrite: time one cloud write may
\* take; fastOk, histOk: results of the cloud writes; weights: readings of
\* scale.get_units in grams; sensor: answers of scale.is_ready() at boot;
\* buttons: level sequences read from the button in the boot window;
\* bodies: form bodies of the submissions made;
\* horizon: the run is followed up to this value of millis().

\* Form bodies: any subset of the five fields, each with any value
FormBodies == UNION {[S -> Strings] : S \in SUBSET FormFields}

ProvCfg == [boot |-> {10000}, durs |-> {0}, sample |-> {0},
            fastWrite |-> {0}, histWrite |-> {0},
            fastOk |-> BOOLEAN, histOk |-> BOOLEAN,
            weights |-> {14500}, sensor |-> {TRUE},
            buttons |-> [1..NumSamples -> Levels], bodies |-> FormBodies,
            horizon |-> MaxNow]
FastCfg == [boot |-> {10000}, durs |-> {0, 5000}, sample |-> {0, 5000},
            fastWrite |-> {0, 5000}, histWrite |-> {0},
            fastOk |-> BOOLEAN, histOk |-> BOOLEAN,
            weights |-> {14500}, sensor |-> {TRUE},
            buttons |-> {[i \in 1..NumSamples |-> "LOW"]},
            bodies |-> FormBodies, horizon |-> FastHorizon]
HistCfg == [boot |-> {10000}, durs |-> {0, 60000, 250000}, sample |-> {0},
            fastWrite |-> {0}, histWrite |-> {0, 60000},
            fastOk |-> {TRUE}, histOk |-> BOOLEAN,
            weights |-> {14200, 14250, 14500}, sensor |-> BOOLEAN,
            buttons |-> {[i \in 1..NumSamples |-> "LOW"]},
            bodies |-> FormBodies, horizon |-> MaxNow]
\* around the wrap of millis(): time passes in steps of 250 ms and 5 s, the
\* weight does not move
WrapCfg == [boot |-> {10000}, durs |-> {250, 5000}, sample |-> {0},
            fastWrite |-> {0}, histWrite |-> {0},
            fastOk |-> {TRUE}, histOk |-> {TRUE},
            weights |-> {14500}, sensor |-> {TRUE},
            buttons |-> {[i \in 1..NumSamples |-> "LOW"]},
            bodies |-> FormBodies, horizon |-> ULONG_MODULUS + WrapWindow]
\* cloud-account changes: the empty body and the complete bodies for one
\* network, with every cloud email and secret
SessionBodies ==
    {b \in FormBodies :
        \/ DOMAIN b = {}
        \/ /\ DOMAIN b = FormFields
           /\ b["ssid"] = "a" /\ b["pass"] = "a" /\ b["dev_name"] = "a"}
SessionCfg == [boot |-> {10000}, durs |-> {0, 10000}, sample |-> {0},
               fastWrite |-> {0}, histWrite |-> {0},
               fastOk |-> {TRUE}, histOk |-> {TRUE},
               weights |-> {14200, 14500}, sensor |-> {TRUE},
               buttons |-> {[i \in 1..NumSamples |-> "LOW"]},
               bodies |-> SessionBodies, horizon |-> SessionHorizon]

\* millis() at uptime t: the counter wraps
Millis(t) == t % ULONG_MODULUS

\* the difference taken without wrap-around
ElapsedSince_NoWrap(t, last) == t - last

\* millis() - last, in unsigned arithmetic
ElapsedSince(t, last) == (t - last) % ULONG_MODULUS

-----------------------------------------------------------------------------
(* connectToWiFi: lines 415-441 *)

\* The radio's answers to WiFi.status() during one call: the link is reported
\* up from status read number upAt on (MAX_CONNECT_ATTEMPTS + 1: not during
\* the polling), and finalUp is the answer to the read of line 429.
ConnectOutcomes ==
    [upAt : {0, MAX_CONNECT_ATTEMPTS + 1}, finalUp : BOOLEAN]

\* a link can come up for the empty network name too
CanAssociate_Any(ssid) == TRUE

\* WiFi.begin refuses an empty network name, so no link can come up for it.
CanAssociate(ssid) == ssid # ""

\* polling with no ceiling: it goes on until the link is reported up
PollLoop_NoCeiling(upAt, attempts) == upAt

\* while (WiFi.status() != WL_CONNECTED && attempts < 40) attempts++
RECURSIVE PollLoop(_, _)
PollLoop(upAt, attempts) ==
    IF ~(attempts >= upAt) /\ attempts < MAX_CONNECT_ATTEMPTS
    THEN PollLoop(upAt, attempts + 1)
    ELSE attempts

\* Result of connectToWiFi for the stored network name under outcome out:
\* the number of polls made and the returned value.
connectToWiFi(ssid, out) ==
    LET reachable == CanAssociate(ssid)
        polls == PollLoop(IF reachable THEN out.upAt
                          ELSE MAX_CONNECT_ATTEMPTS + 1, 0)
    IN [polls |-> polls, ok |-> reachable /\ out.finalUp]

\* line 386 left out
serverStop_Skipped(server) == server

\* server.stop(), line 386
serverStop(server) == FALSE

\* WiFi.softAPdisconnect(true), line 387: the access point is taken down
softAPdisconnect(mode) == IF mode = "AP" THEN "OFF" ELSE mode

\* WiFi.mode(WIFI_STA), lines 388 and 417-419, called with the radio in mode
\* and the server in state server
SwitchToStation(mode, server) ==
    IF mode = "STA" THEN "none"
    ELSE IF mode = "AP" \/ server THEN "dirty"
    ELSE "clean"

\* server.begin(), line 319, called with the server in state server
ServerBegin(server) == IF server THEN "again" ELSE "fresh"

\* startSoftAP, lines 301-321: radio and server after the call
startSoftAP == [mode |-> "AP", linkUp |-> FALSE, server |-> TRUE]

\* a failed connect leaves the radio in station mode with no server
AfterConnect_StuckInStation(ok, server) ==
    [mode |-> "STA", linkUp |-> ok, server |-> FALSE]

\* the fall-back to the access point left out
AfterConnect_NoFallback(ok, server) ==
    [mode |-> "STA", linkUp |-> ok, server |-> server]

\* if (!connectToWiFi()) startSoftAP(): lines 204-207, 286-289, 404-407.
\* Radio and server after the call; server is the server state before it.
AfterConnect(ok, server) ==
    IF ok THEN [mode |-> "STA", linkUp |-> TRUE, server |-> server]
    ELSE startSoftAP

-----------------------------------------------------------------------------
(* Mobile app, device list screen: _checkAndNotifyLowGas (lines 162-208) and
   the builder that starts it (lines 279-286) *)

DeviceIds == {"d1", "d2"}

\* two readings of one cylinder: 10 % and 30 % of its gas left
Low == [currentWeightGrams |-> 15000, emptyWeight |-> 14000,
        fullWeight |-> 24000]
High == [currentWeightGrams |-> 17000, emptyWeight |-> 14000,
         fullWeight |-> 24000]
DeviceData == {Low, High}

Thresholds == {20, 40}

PermissionStatuses == {"granted", "denied"}

ClampLow(x) == IF x < 0 THEN 0 ELSE x

\* lines 116-128, in whole percent
_calculateGasPercentage(currentWeightGrams, emptyWeight, fullWeight) ==
    LET w == ClampLow(currentWeightGrams)
        e == ClampLow(emptyWeight)
        f == ClampLow(fullWeight)
        actualGasWeight == w - e
        gasCapacity == f - e
    IN  IF gasCapacity <= 0 THEN 0
        ELSE IF actualGasWeight <= 0 THEN 0
        ELSE LET percentage == (actualGasWeight * 100) \div gasCapacity
             IN  IF percentage > 100 THEN 100 ELSE percentage

GasOf(d) == _calculateGasPercentage(d.currentWeightGrams, d.emptyWeight,
                                    d.fullWeight)

\* _notifiedDevices[notificationId] ?? false
Notified(map, id) == IF id \in DOMAIN map THEN map[id] ELSE FALSE

\* _notifiedDevices[notificationId] = value
MapPut(map, id, value) ==
    [k \in DOMAIN map \cup {id} |-> IF k = id THEN value ELSE map[k]]

\* an invocation suspended at one of its awaits: "permission" (line 174),
\* "show" (181), "cancel" (197); gas is the percentage computed at line 163
Task(id, gas, at) == [dev |-> id, gas |-> gas, at |-> at]

One(t) == SetToBag({t})

\* the post-frame callback of lines 282-286: one invocation per device, each
\* run up to its first await
StartChecks(snapshot) ==
    SetToBag({Task(id, GasOf(snapshot[id]), "permission") : id \in DeviceIds})

\* the count of showNotification calls, as far as it is followed
CountUp(n) == IF n < 2 THEN n + 1 ELSE n

\* the count starts again for the devices whose level is above the threshold
AfterLevels(count, snapshot, threshold) ==
    [id \in DeviceIds |->
        IF GasOf(snapshot[id]) > threshold THEN 0 ELSE count[id]]

\* the screen as created (lines 29-30), all devices at the high reading,
\* the first build pending
AppInit ==
    /\ devices = [id \in DeviceIds |-> High]
    /\ _userLowGasThreshold = 20
    /\ _notifiedDevices = [id \in {} |-> FALSE]
    /\ tasks = EmptyBag
    /\ needsBuild = TRUE
    /\ shown = [id \in DeviceIds |-> 0]

\* the builder of lines 262-286 with its post-frame callback
Build ==
    /\ needsBuild
    /\ BagCardinality(tasks) + Cardinality(DeviceIds) <= MaxTasks
    /\ needsBuild' = FALSE
    /\ tasks' = tasks (+) StartChecks(devices)
    /\ UNCHANGED <<devices, _userLowGasThreshold, _notifiedDevices, shown,
                   deviceVars>>

\* the device stream delivers a snapshot; the StreamBuilder rebuilds
DeviceSnapshot ==
    /\ \E id \in DeviceIds, data \in DeviceData :
        /\ devices[id] # data
        /\ devices' = [devices EXCEPT ![id] = data]
    /\ shown' = AfterLevels(shown, devices', _userLowGasThreshold)
    /\ needsBuild' = TRUE
    /\ UNCHANGED <<_userLowGasThreshold, _notifiedDevices, tasks, deviceVars>>

\* _listenForUserProfileChanges, lines 102-114: setState with the threshold
ProfileSnapshot ==
    /\ \E threshold \in Thresholds : _userLowGasThreshold' = threshold
    /\ shown' = AfterLevels(shown, devices, _userLowGasThreshold')
    /\ needsBuild' = TRUE
    /\ UNCHANGED <<devices, _notifiedDevices, tasks, deviceVars>>

\* lines 175-207 up to the next await: getPermissionStatus() has completed
AfterPermission ==
    /\ \E t \in BagToSet(tasks), status \in PermissionStatuses :
        /\ t.at = "permission"
        /\ LET rest == tasks (-) One(t)
               low == t.gas <= _userLowGasThreshold
               flag == Notified(_notifiedDevices, t.dev)
           IN  IF status # "granted" THEN
                   /\ tasks' = rest
                   /\ shown' = shown
               ELSE IF low /\ ~flag THEN
                   \* line 181: showNotification is called
                   /\ tasks' = rest (+) One(Task(t.dev, t.gas, "show"))
                   /\ shown' = [shown EXCEPT ![t.dev] = CountUp(@)]
               ELSE IF low THEN
                   /\ tasks' = rest
                   /\ shown' = shown
               ELSE IF flag THEN
                   \* line 197: cancelNotification is called
                   /\ tasks' = rest (+) One(Task(t.dev, t.gas, "cancel"))
                   /\ shown' = [shown EXCEPT ![t.dev] = 0]
               ELSE
                   /\ tasks' = rest
                   /\ shown' = [shown EXCEPT ![t.dev] = 0]
    /\ UNCHANGED <<devices, _userLowGasThreshold, _notifiedDevices,
                   needsBuild, deviceVars>>

\* lines 187-189: showNotification has completed
AfterShow ==
    /\ \E t \in BagToSet(tasks) :
        /\ t.at = "show"
        /\ tasks' = tasks (-) One(t)
        /\ _notifiedDevices' = MapPut(_notifiedDevices, t.dev, TRUE)
    /\ needsBuild' = TRUE
    /\ UNCHANGED <<devices, _userLowGasThreshold, shown, deviceVars>>

\* lines 198-200: cancelNotification has completed
AfterCancel ==
    /\ \E t \in BagToSet(tasks) :
        /\ t.at = "cancel"
        /\ tasks' = tasks (-) One(t)
        /\ _notifiedDevices' = MapPut(_notifiedDevices, t.dev, FALSE)
    /\ needsBuild' = TRUE
    /\ UNCHANGED <<devices, _userLowGasThreshold, shown, deviceVars>>

-----------------------------------------------------------------------------
(* setup: lines 114-232 *)

\* the boot reading never stored
SeedWeight_Never(ready, w0, initial) == initial

\* lines 153-160: the boot reading is stored only when scale.is_ready()
SeedWeight(ready, w0, initial) == IF ready THEN w0 ELSE initial

\* the path decided by the first sample alone
ButtonHeld_FirstSample(samples, i) == samples[1] = "HIGH"

\* lines 166-182: the window ends at the first LOW sample
RECURSIVE ButtonHeld(_, _)
ButtonHeld(samples, i) ==
    IF i > Len(samples) THEN TRUE
    ELSE IF samples[i] = "LOW" THEN FALSE
    ELSE ButtonHeld(samples, i + 1)

\* lines 170-181: number of digitalRead calls made (break at the first LOW)
RECURSIVE SamplesRead(_, _)
SamplesRead(samples, i) ==
    IF i >= Len(samples) THEN Len(samples)
    ELSE IF samples[i] = "LOW" THEN i
    ELSE SamplesRead(samples, i + 1)

\* the test of the stored pair left out
HasStoredCredentials_NoTest(ssid, pass) == TRUE

\* line 200
HasStoredCredentials(ssid, pass) == ssid # "" /\ pass # ""

Init ==
    /\ AppInit
    /\ pc = "boot"
    /\ nvs \in ReachableStores
    /\ storedSSID = ""
    /\ storedPassword = ""
    /\ storedDeviceName = DEFAULT_DEVICE_NAME
    /\ storedFirebaseEmail = ""
    /\ storedFirebasePassword = ""
    /\ wifiMode = "OFF"
    /\ linkUp = FALSE
    /\ serverRunning = FALSE
    /\ _isFirebaseInitialized = FALSE
    /\ now = 0
    /\ lastDisplayUpdateTime = 0
    /\ lastCurrentWeightUpdateTimestamp = 0
    /\ lastHistorySendTimestamp = 0
    /\ _lastSentHistoryWeight = INITIAL_LAST_SENT_WEIGHT
    /\ stamped = NoStamps
    /\ boot = NoBoot
    /\ attempted = FALSE
    /\ conn = NoConnect
    /\ lastRequest = NoRequest
    /\ lastResponse = NoResponse
    /\ lastAccepted = NoAccepted
    /\ linkSeen = FALSE
    /\ sessionInits = 0
    /\ auth = NoAuth
    /\ session = NoSession
    /\ eval = NoEval
    /\ fastLog = NoWrite
    /\ histLog = NoWrite

Setup(cfg) ==
    /\ UNCHANGED appVars
    /\ pc = "boot"
    /\ \E sensorReady \in cfg.sensor, w0 \in cfg.weights,
          samples \in cfg.buttons,
          out \in ConnectOutcomes, d \in cfg.boot :
        LET forceProvisioning == ButtonHeld(samples, 1)
            ssid  == IF forceProvisioning THEN ""
                     ELSE getString(nvs, NVS_SSID_KEY, "")
            pass  == IF forceProvisioning THEN ""
                     ELSE getString(nvs, NVS_PASS_KEY, "")
            name  == IF forceProvisioning THEN DEFAULT_DEVICE_NAME
                     ELSE getString(nvs, NVS_DEV_NAME_KEY, DEFAULT_DEVICE_NAME)
            email == IF forceProvisioning THEN ""
                     ELSE getString(nvs, NVS_FIREBASE_EMAIL_KEY, "")
            fbpw  == IF forceProvisioning THEN ""
                     ELSE getString(nvs, NVS_FIREBASE_PASS_KEY, "")
            try   == ~forceProvisioning /\ HasStoredCredentials(ssid, pass)
            res   == connectToWiFi(ssid, out)
        IN  /\ now + d <= cfg.horizon
            \* the radio's answers are consulted only when a connect is made
            /\ try \/ out = [upAt |-> 0, finalUp |-> TRUE]
            /\ nvs' = IF forceProvisioning THEN clearStore(nvs) ELSE nvs
            /\ storedSSID' = ssid
            /\ storedPassword' = pass
            /\ storedDeviceName' = name
            /\ storedFirebaseEmail' = email
            /\ storedFirebasePassword' = fbpw
            /\ auth' = AuthFrom(email, fbpw)
            /\ session' = NoSession
            \* lines 200-211: connect, or startSoftAP straight away
            /\ LET radio == IF try THEN AfterConnect(res.ok, FALSE)
                            ELSE startSoftAP
               IN  /\ wifiMode' = radio.mode
                   /\ linkUp' = radio.linkUp
                   /\ serverRunning' = radio.server
            /\ _isFirebaseInitialized' = FALSE
            /\ now' = now + d
            /\ lastDisplayUpdateTime' = 0
            /\ lastCurrentWeightUpdateTimestamp' = Millis(now + d)
            /\ lastHistorySendTimestamp' = Millis(now + d)
            /\ stamped' = [display |-> 0, fast |-> now + d, history |-> now + d]
            /\ _lastSentHistoryWeight' =
                   SeedWeight(sensorReady, w0, _lastSentHistoryWeight)
            /\ boot' = [forced |-> forceProvisioning,
                        hadPair |-> {NVS_SSID_KEY, NVS_PASS_KEY} \subseteq DOMAIN nvs,
                        levels |-> SubSeq(samples, 1, SamplesRead(samples, 1)),
                        ready |-> sensorReady]
            /\ attempted' = try
            /\ conn' = IF try
                       THEN Called(res, CanAssociate(ssid) /\ out.finalUp,
                                   SwitchToStation(wifiMode, serverRunning),
                                   ServerBegin(serverRunning))
                       ELSE Started(ServerBegin(serverRunning))
            /\ pc' = "handleClient"
            /\ sessionInits' = 0
            /\ UNCHANGED <<httpLogVars, linkSeen, syncLogVars>>


-----------------------------------------------------------------------------
(* Provisioning HTTP server: lines 315-319 (routes), 324-412 (handlers) *)

DeviceId == "LPG_A1B2C3D4E5F6"

Requests ==
    {[method |-> "POST", path |-> "/save_config", args |-> a] : a \in FormBodies}
    \cup {[method |-> m, path |-> "/", args |-> EmptyStore] : m \in {"GET", "POST"}}
    \cup {[method |-> "GET", path |-> "/save_config", args |-> EmptyStore]}
    \cup {[method |-> m, path |-> "/other", args |-> EmptyStore] : m \in {"GET", "POST"}}

\* "/" served for GET only
Route_GetOnly(req) ==
    IF req.path = "/" /\ req.method = "GET" THEN "handleRoot"
    ELSE IF req.path = "/save_config" /\ req.method = "POST" THEN "handleSaveConfig"
    ELSE "handleNotFound"

\* server.on("/", ..), server.on("/save_config", HTTP_POST, ..), onNotFound
Route(req) ==
    IF req.path = "/" THEN "handleRoot"
    ELSE IF req.path = "/save_config" /\ req.method = "POST" THEN "handleSaveConfig"
    ELSE "handleNotFound"

\* lines 338-339
MissingArgs(args) ==
    \/ ~("ssid" \in DOMAIN args) \/ ~("pass" \in DOMAIN args)
    \/ ~("fb_email" \in DOMAIN args) \/ ~("fb_pass" \in DOMAIN args)
    \/ ~("dev_name" \in DOMAIN args)

\* the password written under the form field's name instead of NVS_PASS_KEY
SaveToStore_WrongKey(store, args) ==
    LET s1 == putString(store, NVS_SSID_KEY, args["ssid"])
        s2 == putString(s1, "pass", args["pass"])
        s3 == putString(s2, NVS_FIREBASE_EMAIL_KEY, args["fb_email"])
        s4 == putString(s3, NVS_FIREBASE_PASS_KEY, args["fb_pass"])
    IN putString(s4, NVS_DEV_NAME_KEY, args["dev_name"])

\* lines 357-363
SaveToStore(store, args) ==
    LET s1 == putString(store, NVS_SSID_KEY, args["ssid"])
        s2 == putString(s1, NVS_PASS_KEY, args["pass"])
        s3 == putString(s2, NVS_FIREBASE_EMAIL_KEY, args["fb_email"])
        s4 == putString(s3, NVS_FIREBASE_PASS_KEY, args["fb_pass"])
    IN putString(s4, NVS_DEV_NAME_KEY, args["dev_name"])

\* the error sent as plain text instead of the JSON document
ErrorResponse_PlainText ==
    [code |-> 400, type |-> "text/plain",
     body |-> [status |-> "Missing required configuration parameters."]]

\* lines 342-347
ErrorResponse ==
    [code |-> 400, type |-> "application/json",
     body |-> [status |-> "error",
               message |-> "Missing required configuration parameters."]]
SuccessResponse ==
    [code |-> 200, type |-> "application/json",
     body |-> [status |-> "success",
               message |-> "Configuration received and saved. Attempting to connect.",
               deviceId |-> DeviceId]]
MethodNotAllowed ==
    [code |-> 405, type |-> "text/plain", body |-> [status |-> "Method Not Allowed"]]
RootResponse ==
    [code |-> 200, type |-> "text/html", body |-> [status |-> "ESP32 Active"]]
NotFoundResponse ==
    [code |-> 404, type |-> "text/plain", body |-> [status |-> "Not found"]]

\* lines 332-349: the answer handleSaveConfig gives
SaveConfigResponse(req) ==
    IF req.method # "POST" THEN MethodNotAllowed
    ELSE IF MissingArgs(req.args) THEN ErrorResponse
    ELSE SuccessResponse

\* The requests each handler is dispatched for
Routed(handler) == {req \in Requests : Route(req) = handler}
RootRequests == Routed("handleRoot")
SaveRequests == Routed("handleSaveConfig")
OtherRequests == Routed("handleNotFound")

\* server.handleClient() with nothing to serve
HandleClientIdle(cfg) ==
    /\ UNCHANGED appVars
    /\ pc = "handleClient"
    /\ pc' = "loopBody"
    /\ lastRequest' = NoRequest
    /\ lastResponse' = NoResponse
    /\ conn' = NoConnect
    /\ UNCHANGED <<nvs, credVars, wifiMode, linkUp, serverRunning,
                   _isFirebaseInitialized, now, timerVars, boot, attempted,
                   lastAccepted, linkSeen, sessionInits, session, syncLogVars>>

\* handleRoot, lines 324-327
HandleRoot(cfg) ==
    /\ UNCHANGED appVars
    /\ pc = "handleClient"
    /\ serverRunning
    /\ \E req \in RootRequests :
        /\ lastRequest' = Seen(req)
        /\ lastResponse' = RootResponse
    /\ pc' = "loopBody"
    /\ conn' = NoConnect
    /\ UNCHANGED <<nvs, credVars, wifiMode, linkUp, serverRunning,
                   _isFirebaseInitialized, now, timerVars, boot, attempted,
                   lastAccepted, linkSeen, sessionInits, session, syncLogVars>>

\* handleNotFound, lines 410-412
HandleNotFound(cfg) ==
    /\ UNCHANGED appVars
    /\ pc = "handleClient"
    /\ serverRunning
    /\ \E req \in OtherRequests :
        /\ lastRequest' = Seen(req)
        /\ lastResponse' = NotFoundResponse
    /\ pc' = "loopBody"
    /\ conn' = NoConnect
    /\ UNCHANGED <<nvs, credVars, wifiMode, linkUp, serverRunning,
                   _isFirebaseInitialized, now, timerVars, boot, attempted,
                   lastAccepted, linkSeen, sessionInits, session, syncLogVars>>

\* the connect made with the credentials held before the submission
CredentialsAtConnect_Previous(new, old) == old

\* lines 391-392 precede the connectToWiFi call of line 404, which reads
\* storedSSID and storedPassword (line 420)
CredentialsAtConnect(new, old) == new

\* the auth object left as setup() filled it
AuthAfterAccept_Stale(new, old) == old

\* lines 400-401
AuthAfterAccept(new, old) == new

Step(op, a, b) == [op |-> op, a |-> a, b |-> b]

\* lines 357-404: the calls an accepted submission makes, in program order
SaveConfigSteps(args, ssid0, pass0) ==
    << Step("putString", args["ssid"], args["pass"]),
       Step("send", "200", DeviceId),
       Step("server.stop", "", ""),
       Step("softAPdisconnect", "", ""),
       Step("WiFi.mode", "STA", ""),
       Step("WiFi.begin", CredentialsAtConnect(args["ssid"], ssid0),
                          CredentialsAtConnect(args["pass"], pass0)) >>

\* handleSaveConfig, lines 330-408, with the connectToWiFi and startSoftAP
\* calls it makes
HandleSaveConfig(cfg) ==
    /\ UNCHANGED appVars
    /\ pc = "handleClient"
    /\ serverRunning
    /\ \/ \E req \in SaveRequests :
            \* lines 332-349: answered without touching anything
            /\ req.args \in cfg.bodies
            /\ SaveConfigResponse(req).code # 200
            /\ lastRequest' = Seen(req)
            /\ lastResponse' = SaveConfigResponse(req)
            /\ conn' = NoConnect
            /\ UNCHANGED <<nvs, credVars, wifiMode, linkUp, serverRunning,
                           _isFirebaseInitialized, now, attempted, lastAccepted,
                           sessionInits, session>>
       \/ \E req \in SaveRequests, out \in ConnectOutcomes, d \in cfg.durs :
            \* lines 351-408
            /\ req.args \in cfg.bodies
            /\ SaveConfigResponse(req).code = 200
            /\ now + d <= cfg.horizon
            /\ lastRequest' = Seen(req)
            /\ lastResponse' = SaveConfigResponse(req)
            /\ nvs' = SaveToStore(nvs, req.args)
            /\ storedSSID' = req.args["ssid"]
            /\ storedPassword' = req.args["pass"]
            /\ storedDeviceName' = req.args["dev_name"]
            /\ storedFirebaseEmail' = req.args["fb_email"]
            /\ storedFirebasePassword' = req.args["fb_pass"]
            /\ _isFirebaseInitialized' = FALSE
            /\ auth' = AuthAfterAccept(AuthFrom(req.args["fb_email"],
                                                req.args["fb_pass"]), auth)
            /\ session' = NoSession
            /\ lastAccepted' = [valid |-> TRUE,
                                repeat |-> lastAccepted.valid
                                           /\ lastAccepted.args = req.args,
                                args |-> req.args, store |-> nvs',
                                steps |-> SaveConfigSteps(req.args, storedSSID,
                                                          storedPassword)]
            \* connectToWiFi; on failure startSoftAP (lines 404-407)
            /\ LET steps == lastAccepted'.steps
                   res == connectToWiFi(steps[Len(steps)].a, out)
                   stopped == serverStop(serverRunning)
                   apDown == softAPdisconnect(wifiMode)
                   radio == AfterConnect(res.ok, stopped)
               IN  /\ wifiMode' = radio.mode
                   /\ linkUp' = radio.linkUp
                   /\ serverRunning' = radio.server
                   /\ conn' = Called(res, CanAssociate(steps[Len(steps)].a)
                                          /\ out.finalUp,
                                     SwitchToStation(apDown, stopped),
                                     ServerBegin(stopped))
                   /\ sessionInits' = IF radio.linkUp THEN 0 ELSE sessionInits
            /\ now' = now + d
            /\ attempted' = TRUE
    /\ pc' = "loopBody"
    /\ UNCHANGED <<timerVars, boot, linkSeen, syncLogVars>>

-----------------------------------------------------------------------------
(* loop after server.handleClient(): lines 237-297 *)

Abs(x) == IF x < 0 THEN -x ELSE x

\* line 247
DisplayDue(t, last) == ElapsedSince(t, last) >= displayUpdateInterval

\* due only against the timestamp armed at boot: the cadence stops after
\* the first update
FastUpdateDue_FirstTickOnly(t, last) ==
    /\ ElapsedSince(t, last) >= CURRENT_WEIGHT_UPDATE_INTERVAL_MS
    /\ last <= CURRENT_WEIGHT_UPDATE_INTERVAL_MS

\* line 253
FastUpdateDue(t, last) == ElapsedSince(t, last) >= CURRENT_WEIGHT_UPDATE_INTERVAL_MS

\* strict comparisons instead of >=
HistoryDue_Strict(w, lastW, t, lastT) ==
    \/ Abs(w - lastW) > WEIGHT_CHANGE_THRESHOLD_GRAMS
    \/ ElapsedSince(t, lastT) > MAX_FIREBASE_HISTORY_INTERVAL_MS

\* lines 262-263
HistoryDue(w, lastW, t, lastT) ==
    \/ Abs(w - lastW) >= WEIGHT_CHANGE_THRESHOLD_GRAMS
    \/ ElapsedSince(t, lastT) >= MAX_FIREBASE_HISTORY_INTERVAL_MS

\* the timestamp moved only when the write succeeded
FastStamp_OnSuccess(tDone, ok, last) == IF ok THEN tDone ELSE last

\* line 257: the timestamp taken after updateMainDeviceDocument returned
FastStamp(tDone, ok, last) == tDone

\* the timestamp moved only when the write succeeded
HistoryStamp_OnSuccess(tDone, ok, last) == IF ok THEN tDone ELSE last

\* line 268: the timestamp taken after addHistoryEntryToFirebase returned
HistoryStamp(tDone, ok, last) == tDone

\* the last sent weight moved only when the write succeeded
HistoryWeight_OnSuccess(w, ok, lastW) == IF ok THEN w ELSE lastW

\* line 267
HistoryWeight(w, ok, lastW) == w

\* no reconnection from the loop
ShouldReconnect_Never(mode, ssid) == FALSE

\* the radio mode not tested
ShouldReconnect_AnyMode(mode, ssid) == ssid # ""

\* the link test always passes
LinkConnected_Always(up) == TRUE

\* line 237: WiFi.status() == WL_CONNECTED
LinkConnected(up) == up

\* lines 238-244: Firebase.begin is called when the latch is not set; n is
\* the number of calls made so far
FirebaseBegins(latch, n) == IF latch THEN n ELSE n + 1

\* line 282
ShouldReconnect(mode, ssid) == mode = "STA" /\ ssid # ""

\* the reset left out
LatchAfterLinkDown_Kept(latch) == latch

\* lines 277-280: the latch after an iteration that found the link down
LatchAfterLinkDown(latch) == FALSE

\* Link up, Firebase.ready(): lines 246-269
LoopSync(cfg) ==
    /\ UNCHANGED appVars
    /\ pc = "loopBody"
    /\ LinkConnected(linkUp)
    /\ LET t0 == now
           dispDue == DisplayDue(Millis(t0), lastDisplayUpdateTime)
       IN \E dA \in (IF dispDue THEN cfg.sample ELSE {0}) :
          LET t1 == t0 + dA
              fastDue == FastUpdateDue(Millis(t1),
                                       lastCurrentWeightUpdateTimestamp)
          IN \E dS \in (IF fastDue THEN cfg.sample ELSE {0}),
                dW \in (IF fastDue THEN cfg.fastWrite ELSE {0}),
                fastOk \in (IF fastDue THEN cfg.fastOk ELSE {TRUE}),
                dH \in cfg.durs, w \in cfg.weights :
             LET t2 == t1 + dS + dW
                 t3 == t2 + dH
                 histDue == HistoryDue(w, _lastSentHistoryWeight, Millis(t3),
                                       lastHistorySendTimestamp)
             IN \E dX \in (IF histDue THEN cfg.histWrite ELSE {0}),
                   histOk \in (IF histDue THEN cfg.histOk ELSE {TRUE}) :
                /\ t3 + dX <= cfg.horizon
                /\ now' = t3 + dX
                /\ lastDisplayUpdateTime' =
                       IF dispDue THEN Millis(t1) ELSE lastDisplayUpdateTime
                /\ lastCurrentWeightUpdateTimestamp' =
                       IF fastDue
                       THEN FastStamp(Millis(t2), fastOk,
                                      lastCurrentWeightUpdateTimestamp)
                       ELSE lastCurrentWeightUpdateTimestamp
                /\ fastLog' =
                       IF fastDue
                       THEN LoggedFast(fastLog, t1 + dS, fastOk)
                       ELSE fastLog
                /\ _lastSentHistoryWeight' =
                       IF histDue
                       THEN HistoryWeight(w, histOk, _lastSentHistoryWeight)
                       ELSE _lastSentHistoryWeight
                /\ lastHistorySendTimestamp' =
                       IF histDue
                       THEN HistoryStamp(Millis(t3 + dX), histOk,
                                         lastHistorySendTimestamp)
                       ELSE lastHistorySendTimestamp
                /\ stamped' =
                       [display |-> IF dispDue THEN t1 ELSE stamped.display,
                        fast    |-> IF fastDue
                                    THEN FastStamp(t2, fastOk, stamped.fast)
                                    ELSE stamped.fast,
                        history |-> IF histDue
                                    THEN HistoryStamp(t3 + dX, histOk,
                                                      stamped.history)
                                    ELSE stamped.history]
                /\ histLog' =
                       IF histDue
                       THEN LoggedHistory(histLog, t3, w, histOk)
                       ELSE histLog
                /\ eval' = [ready |-> TRUE, t |-> t3, w |-> w]
    /\ _isFirebaseInitialized' = TRUE
    /\ sessionInits' = FirebaseBegins(_isFirebaseInitialized, sessionInits)
    /\ session' = IF _isFirebaseInitialized THEN session ELSE Begun(auth)
    /\ linkSeen' = TRUE
    /\ conn' = NoConnect
    /\ pc' = "handleClient"
    /\ lastRequest' = NoRequest
    /\ lastResponse' = NoResponse
    /\ UNCHANGED <<nvs, credVars, wifiMode, linkUp, serverRunning, boot,
                   attempted, lastAccepted>>

\* Link up, Firebase.ready() false: lines 238-244, 270-275
LoopAuthPending(cfg) ==
    /\ UNCHANGED appVars
    /\ pc = "loopBody"
    /\ LinkConnected(linkUp)
    /\ \E d \in cfg.durs :
        /\ now + d <= cfg.horizon
        /\ now' = now + d
    /\ _isFirebaseInitialized' = TRUE
    /\ sessionInits' = FirebaseBegins(_isFirebaseInitialized, sessionInits)
    /\ session' = IF _isFirebaseInitialized THEN session ELSE Begun(auth)
    /\ linkSeen' = TRUE
    /\ conn' = NoConnect
    /\ pc' = "handleClient"
    /\ lastRequest' = NoRequest
    /\ lastResponse' = NoResponse
    /\ eval' = NoEval
    /\ UNCHANGED <<nvs, credVars, wifiMode, linkUp, serverRunning, timerVars,
                   boot, attempted, lastAccepted, fastLog, histLog>>

\* Link down: lines 276-297, with the connectToWiFi and startSoftAP calls
LoopLinkDown(cfg) ==
    /\ UNCHANGED appVars
    /\ pc = "loopBody"
    /\ ~LinkConnected(linkUp)
    /\ \E out \in ConnectOutcomes, d \in cfg.durs :
        LET try == ShouldReconnect(wifiMode, storedSSID)
            res == connectToWiFi(storedSSID, out)
        IN  /\ now + d <= cfg.horizon
            /\ now' = now + d
            /\ try \/ out = [upAt |-> 0, finalUp |-> TRUE]
            /\ IF try
               THEN /\ LET radio == AfterConnect(res.ok, serverRunning)
                       IN  /\ wifiMode' = radio.mode
                           /\ linkUp' = radio.linkUp
                           /\ serverRunning' = radio.server
                           /\ sessionInits' =
                                  IF radio.linkUp THEN 0 ELSE sessionInits
                    /\ attempted' = TRUE
                    /\ conn' = Called(res, CanAssociate(storedSSID)
                                           /\ out.finalUp,
                                      SwitchToStation(wifiMode, serverRunning),
                                      ServerBegin(serverRunning))
               ELSE /\ conn' = NoConnect
                    /\ UNCHANGED <<wifiMode, linkUp, serverRunning, attempted,
                                   sessionInits>>
    /\ _isFirebaseInitialized' = LatchAfterLinkDown(_isFirebaseInitialized)
    /\ session' = IF _isFirebaseInitialized' THEN session ELSE NoSession
    /\ linkSeen' = FALSE
    /\ pc' = "handleClient"
    /\ lastRequest' = NoRequest
    /\ lastResponse' = NoResponse
    /\ eval' = NoEval
    /\ UNCHANGED <<nvs, credVars, timerVars, boot, lastAccepted, fastLog,
                   histLog>>

-----------------------------------------------------------------------------
(* Environment *)

\* the station link drops (access point out of range, switched off)
LinkLost ==
    /\ UNCHANGED appVars
    /\ pc # "boot"
    /\ linkUp
    /\ linkUp' = FALSE
    /\ sessionInits' = 0
    /\ UNCHANGED <<pc, nvs, credVars, wifiMode, serverRunning,
                   _isFirebaseInitialized, now, timerVars, boot, attempted,
                   conn, httpLogVars, linkSeen, session, syncLogVars>>

\* the radio re-associates on its own (station mode, network known)
LinkRestored ==
    /\ UNCHANGED appVars
    /\ pc # "boot"
    /\ ~linkUp
    /\ wifiMode = "STA"
    /\ CanAssociate(storedSSID)
    /\ linkUp' = TRUE
    /\ sessionInits' = 0
    /\ UNCHANGED <<pc, nvs, credVars, wifiMode, serverRunning,
                   _isFirebaseInitialized, now, timerVars, boot, attempted,
                   conn, httpLogVars, linkSeen, session, syncLogVars>>

\* power cycle: RAM is lost, the Preferences namespace survives
Reboot ==
    /\ UNCHANGED appVars
    /\ pc # "boot"
    /\ pc' = "boot"
    /\ storedSSID' = ""
    /\ storedPassword' = ""
    /\ storedDeviceName' = DEFAULT_DEVICE_NAME
    /\ storedFirebaseEmail' = ""
    /\ storedFirebasePassword' = ""
    /\ wifiMode' = "OFF"
    /\ linkUp' = FALSE
    /\ serverRunning' = FALSE
    /\ _isFirebaseInitialized' = FALSE
    /\ now' = 0
    /\ lastDisplayUpdateTime' = 0
    /\ lastCurrentWeightUpdateTimestamp' = 0
    /\ lastHistorySendTimestamp' = 0
    /\ _lastSentHistoryWeight' = INITIAL_LAST_SENT_WEIGHT
    /\ stamped' = NoStamps
    /\ boot' = NoBoot
    /\ attempted' = FALSE
    /\ conn' = NoConnect
    /\ lastRequest' = NoRequest
    /\ lastResponse' = NoResponse
    /\ lastAccepted' = NoAccepted
    /\ linkSeen' = FALSE
    /\ sessionInits' = 0
    /\ auth' = NoAuth
    /\ session' = NoSession
    /\ eval' = NoEval
    /\ fastLog' = NoWrite
    /\ histLog' = NoWrite
    /\ UNCHANGED nvs

-----------------------------------------------------------------------------
(* Specifications *)

\* The whole firmware: every stored record, every request
Next ==
    \/ Setup(ProvCfg)
    \/ HandleClientIdle(ProvCfg)
    \/ HandleRoot(ProvCfg)
    \/ HandleNotFound(ProvCfg)
    \/ HandleSaveConfig(ProvCfg)
    \/ LoopSync(ProvCfg)
    \/ LoopAuthPending(ProvCfg)
    \/ LoopLinkDown(ProvCfg)
    \/ LinkLost
    \/ LinkRestored
    \/ Reboot

Spec == Init /\ [][Next]_vars

\* The cloud-sync cadences: one stored record, the link stays up once made
SyncRecord == [k \in NvsKeys |-> "a"]

InitSync == Init /\ nvs = SyncRecord

\* Fast-update cadence on a 5 s grid
NextFast ==
    \/ Setup(FastCfg)
    \/ HandleClientIdle(FastCfg)
    \/ LoopSync(FastCfg)
    \/ LoopAuthPending(FastCfg)
    \/ LoopLinkDown(FastCfg)

SpecFast == InitSync /\ [][NextFast]_vars

\* The same, with the scheduling of the sketch: loop() is called again and
\* again, and iterations that read the sensor take time
SpecFastLive ==
    /\ InitSync
    /\ [][NextFast]_vars
    /\ WF_vars(NextFast)
    /\ SF_vars(LoopSync(FastCfg) /\ now' > now)

\* History cadence on a 60 s / 250 s grid
NextHistory ==
    \/ Setup(HistCfg)
    \/ HandleClientIdle(HistCfg)
    \/ LoopSync(HistCfg)
    \/ LoopAuthPending(HistCfg)
    \/ LoopLinkDown(HistCfg)

SpecHistory == InitSync /\ [][NextHistory]_vars

\* Cloud-account changes: provisioning, cloud writes, link loss and power
\* cycles together, for one network and a short stretch of time
InitSession == Init /\ nvs \in {EmptyStore, SyncRecord}

NextSession ==
    \/ Setup(SessionCfg)
    \/ HandleClientIdle(SessionCfg)
    \/ HandleSaveConfig(SessionCfg)
    \/ LoopSync(SessionCfg)
    \/ LoopAuthPending(SessionCfg)
    \/ LoopLinkDown(SessionCfg)
    \/ LinkLost
    \/ LinkRestored
    \/ Reboot

SpecSession == InitSession /\ [][NextSession]_vars

\* The counter's wrap: the device has been up, connected and synchronising,
\* for almost a full period of millis(); a loop iteration has just refreshed
\* the display and made a fast update, and the last history entry was sent
\* HistoryLead ms earlier
InitWrap ==
    /\ AppInit
    /\ pc = "handleClient"
    /\ nvs = SyncRecord
    /\ storedSSID = "a"
    /\ storedPassword = "a"
    /\ storedDeviceName = "a"
    /\ storedFirebaseEmail = "a"
    /\ storedFirebasePassword = "a"
    /\ auth = AuthFrom("a", "a")
    /\ wifiMode = "STA"
    /\ linkUp = TRUE
    /\ serverRunning = FALSE
    /\ _isFirebaseInitialized = TRUE
    /\ now = ULONG_MODULUS - WrapWindow
    /\ lastDisplayUpdateTime = Millis(now)
    /\ lastCurrentWeightUpdateTimestamp = Millis(now)
    /\ lastHistorySendTimestamp = Millis(now - HistoryLead)
    /\ _lastSentHistoryWeight = 14500
    /\ stamped = [display |-> now, fast |-> now,
                  history |-> now - HistoryLead]
    /\ boot = [forced |-> FALSE, hadPair |-> TRUE, levels |-> <<"LOW">>,
               ready |-> TRUE]
    /\ attempted = TRUE
    /\ conn = NoConnect
    /\ lastRequest = NoRequest
    /\ lastResponse = NoResponse
    /\ lastAccepted = NoAccepted
    /\ linkSeen = TRUE
    /\ sessionInits = 1
    /\ session = Begun(auth)
    /\ eval = [ready |-> TRUE, t |-> now, w |-> 14500]
    /\ fastLog = LoggedFast(NoWrite, now, TRUE)
    /\ histLog = LoggedHistory(NoWrite, now - HistoryLead, 14500, TRUE)

NextWrap ==
    \/ HandleClientIdle(WrapCfg)
    \/ LoopSync(WrapCfg)
    \/ LoopAuthPending(WrapCfg)

SpecWrap == InitWrap /\ [][NextWrap]_vars

\* The device list screen on its own: snapshots arrive, the screen rebuilds,
\* the suspended checks resume in any order
InitNotify == Init /\ nvs = EmptyStore

NextNotify ==
    \/ Build
    \/ DeviceSnapshot
    \/ ProfileSnapshot
    \/ AfterPermission
    \/ AfterShow
    \/ AfterCancel

SpecNotify == InitNotify /\ [][NextNotify]_vars


-----------------------------------------------------------------------------
(* Properties *)

ProvisioningActive == wifiMode = "AP" /\ serverRunning

\* the step is the handling of a submission answered 200
AcceptedStep == pc = "handleClient" /\ lastResponse' = SuccessResponse

\* the store a complete form body is expected to leave behind
ExpectedStore(args) ==
    [k \in {"ssid", "password", "dev_name", "fb_email", "fb_pass"} |->
        IF k = "ssid" THEN args["ssid"]
        ELSE IF k = "password" THEN args["pass"]
        ELSE IF k = "dev_name" THEN args["dev_name"]
        ELSE IF k = "fb_email" THEN args["fb_email"]
        ELSE args["fb_pass"]]

\* C1: after a boot that found no name/password pair stored and did not take
\* the forced path, and as long as no submission has been accepted, the
\* device is in access-point mode with the provisioning server running and
\* has made no station-mode connection attempt.
C1_UnconfiguredBootProvisions ==
    (pc # "boot" /\ ~boot.forced /\ ~boot.hadPair /\ ~lastAccepted.valid)
        => (ProvisioningActive /\ ~attempted /\ ~conn.called /\ ~linkUp)

\* a rejected submission was served after such a boot
C1_Witness ==
    /\ pc = "loopBody" /\ ~boot.forced /\ ~boot.hadPair /\ ~lastAccepted.valid
    /\ lastResponse.code = 400 /\ ProvisioningActive

\* C2: of two consecutive addHistoryEntryToFirebase calls of one run, the
\* weights differ by at least 250 g or the calls are at least 300000 ms apart.
C2_HistorySpacing ==
    (histLog.n = 1 /\ histLog.pt # 0)
        => \/ Abs(histLog.w - histLog.pw) >= 250
           \/ histLog.t - histLog.pt >= 300000

\* a second call exactly 300000 ms after the first, weight unchanged
C2_Witness ==
    /\ histLog.n = 1 /\ histLog.pt # 0
    /\ histLog.w = histLog.pw
    /\ histLog.t - histLog.pt = 300000

\* C3: two consecutive updateMainDeviceDocument calls are at least 10000 ms
\* apart, whatever the result of the earlier one.
C3_FastSpacing ==
    [][(fastLog'.flip # fastLog.flip /\ fastLog.n = 1)
          => fastLog'.t - fastLog.t >= 10000]_vars

\* a call made after the previous call had failed
C3_Witness ==
    fastLog.n = 1 /\ ~fastLog.pok /\ fastLog.flip = FALSE

\* C4: when a submission is answered 200 it carried all five fields and the
\* store holds exactly the five submitted values under its five keys.
C4_StoreHoldsSubmission ==
    (lastResponse.code = 200 /\ lastRequest.path = "/save_config")
        => /\ DOMAIN lastAccepted.args = FormFields
           /\ nvs = ExpectedStore(lastAccepted.args)

\* a submission accepted over a store that held another record
C4_Witness ==
    /\ lastResponse.code = 200 /\ lastRequest.path = "/save_config"
    /\ boot.hadPair /\ ~lastAccepted.repeat
    /\ nvs["ssid"] = "a" /\ nvs["password"] = ""

\* C5: a POST /save_config lacking a field is answered 400 with the JSON
\* error body and changes neither the store, the working credentials, the
\* radio mode, the server nor the session latch.
C5_RejectedSubmission ==
    [][(pc = "handleClient" /\ lastRequest'.path = "/save_config"
          /\ lastRequest'.method = "POST" /\ ~lastRequest'.complete)
       => /\ lastResponse' =
                [code |-> 400, type |-> "application/json",
                 body |-> [status |-> "error",
                           message |-> "Missing required configuration parameters."]]
          /\ UNCHANGED <<nvs, credVars, wifiMode, serverRunning,
                         _isFirebaseInitialized, linkUp>>]_vars

\* a rejection served while a record is stored
C5_Witness ==
    /\ pc = "loopBody" /\ lastRequest.path = "/save_config"
    /\ ~lastRequest.complete /\ lastResponse.code = 400
    /\ DOMAIN nvs = NvsKeys /\ ProvisioningActive

\* C6: after a connect attempt that made all 40 polls and ended with the
\* link down, the device is in access-point mode with the server running.
C6_ExhaustedFallsBack ==
    (conn.called /\ conn.polls = 40 /\ ~conn.up) => ProvisioningActive

\* an exhausted reconnect made from the loop
C6_Witness ==
    /\ pc = "handleClient" /\ linkSeen = FALSE /\ ~lastAccepted.valid
    /\ lastRequest = NoRequest /\ eval = NoEval /\ _isFirebaseInitialized = FALSE
    /\ conn.called /\ conn.polls = 40 /\ ~conn.up /\ ProvisioningActive
    /\ storedSSID = "a" /\ storedPassword = "a"

\* C7: a loop body that evaluates the history condition with a reading
\* 250 g or more away from the last sent weight, or 300000 ms or more after
\* the last history send, makes the history call in that iteration with that
\* reading and resets the last sent weight and the timer.
C7_HistoryTriggered ==
    [][(pc = "loopBody" /\ eval'.ready
          /\ (\/ Abs(eval'.w - _lastSentHistoryWeight) >= 250
              \/ eval'.t - lastHistorySendTimestamp >= 300000))
       => /\ histLog'.flip # histLog.flip
          /\ histLog'.w = eval'.w
          /\ histLog'.t = eval'.t
          /\ _lastSentHistoryWeight' = eval'.w
          /\ lastHistorySendTimestamp' = now']_vars

\* an unchanged 14500 g sent again 310 s after the previous call
C7_Witness ==
    /\ histLog.n = 1 /\ histLog.pt # 0
    /\ histLog.w = 14500 /\ histLog.pw = 14500
    /\ histLog.t - histLog.pt = 310000
    /\ lastHistorySendTimestamp >= histLog.t

\* C8 as stated: the latch is true only while the station link is up.
C8_LatchOnlyWhileLinkUp == _isFirebaseInitialized => linkUp

\* C8 amended: the latch is true only if the loop's latest link check found
\* the link up and the radio is in station mode; a loop body that finds the
\* link down and an accepted submission leave the latch false.
C8_LatchFollowsLinkCheck ==
    /\ [](_isFirebaseInitialized => (linkSeen /\ wifiMode = "STA"))
    /\ [][((pc = "loopBody" /\ pc' = "handleClient" /\ ~linkUp) \/ AcceptedStep)
             => ~_isFirebaseInitialized']_vars

\* the link was lost with the latch set and the loop has reset the latch
C8_Witness ==
    /\ pc = "handleClient" /\ ~_isFirebaseInitialized /\ ~linkSeen
    /\ wifiMode = "AP" /\ conn.called /\ ~conn.up /\ lastAccepted.valid

\* C9: in access-point mode with the server running, every step other than
\* the handling of an accepted submission (and a power cycle) leaves the
\* device there and makes no connection attempt.
C9_StaysInProvisioning ==
    [][(pc # "boot" /\ pc' # "boot" /\ ProvisioningActive /\ ~AcceptedStep)
          => (ProvisioningActive' /\ ~conn'.called /\ ~linkUp'
              /\ attempted' = attempted)]_vars

\* a loop body run in access-point mode with credentials stored
C9_Witness ==
    /\ pc = "handleClient" /\ ProvisioningActive
    /\ storedSSID = "a" /\ storedPassword = "a" /\ nvs["ssid"] = "a"
    /\ attempted /\ ~conn.called /\ lastRequest = NoRequest

\* C10: an accepted submission with the same body as the previous accepted
\* one leaves the store as the previous one left it.
C10_RepeatedSubmission ==
    [][(AcceptedStep /\ lastAccepted.valid
          /\ lastAccepted'.args = lastAccepted.args)
       => nvs' = lastAccepted.store]_vars

\* the same body accepted twice in succession
C10_Witness ==
    /\ lastResponse = SuccessResponse /\ lastAccepted.repeat
    /\ nvs["ssid"] = "a" /\ nvs["dev_name"] = "a"

\* the step is setup()
BootStep == pc = "boot" /\ pc' = "handleClient"

\* C11: the forced path is taken iff every sample read in the boot window
\* was HIGH; a LOW sample is the last one read, and the boot that follows it
\* takes the normal path and leaves the store as it was.
C11_ForcedIffAllHigh ==
    [][BootStep =>
        LET levels == boot'.levels
            allHigh == \A i \in DOMAIN levels : levels[i] = "HIGH"
        IN  /\ Len(levels) >= 1
            /\ boot'.forced <=> allHigh
            /\ \A i \in DOMAIN levels :
                  levels[i] = "LOW" => i = Len(levels)
            /\ ~allHigh => nvs' = nvs]_vars

\* HIGH then LOW: the window ended at the second sample, normal boot with
\* the stored record in place
C11_Witness ==
    /\ pc = "handleClient" /\ lastRequest = NoRequest
    /\ boot.levels = <<"HIGH", "LOW">> /\ ~boot.forced
    /\ boot.hadPair /\ nvs["ssid"] = "a" /\ attempted

\* C12: a boot that takes the forced path leaves the store empty and the
\* working copies at their defaults, and ends in access-point mode with the
\* server running without having called connectToWiFi, whatever was stored.
C12_ForcedPathErases ==
    [][(BootStep /\ boot'.forced) =>
        /\ nvs' = EmptyStore
        /\ storedSSID' = "" /\ storedPassword' = ""
        /\ storedDeviceName' = "Unnamed Device"
        /\ storedFirebaseEmail' = "" /\ storedFirebasePassword' = ""
        /\ ProvisioningActive' /\ ~linkUp'
        /\ ~conn'.called /\ ~attempted']_vars

\* the forced path taken over a stored record
C12_Witness ==
    /\ pc = "handleClient" /\ boot.forced /\ boot.hadPair
    /\ Len(boot.levels) = NumSamples
    /\ nvs = EmptyStore /\ ProvisioningActive /\ ~attempted

\* C13: when the connect attempt of an accepted submission fails, the device
\* is back in access-point mode with the server running, and the store and
\* the working copies hold the five submitted values.
C13_FailedConnectKeepsSubmission ==
    [][(AcceptedStep /\ ~conn'.ok) =>
        LET args == lastAccepted'.args
        IN  /\ conn'.called
            /\ ProvisioningActive' /\ ~linkUp'
            /\ nvs' = ExpectedStore(args)
            /\ storedSSID' = args["ssid"]
            /\ storedPassword' = args["pass"]
            /\ storedDeviceName' = args["dev_name"]
            /\ storedFirebaseEmail' = args["fb_email"]
            /\ storedFirebasePassword' = args["fb_pass"]]_vars

\* a submission over another stored record, its connect attempt exhausted
C13_Witness ==
    /\ pc = "loopBody" /\ lastResponse = SuccessResponse
    /\ conn.called /\ ~conn.ok /\ conn.polls = 40
    /\ boot.hadPair /\ ~boot.forced /\ ~lastAccepted.repeat
    /\ nvs["ssid"] = "a" /\ nvs["fb_email"] = "" /\ storedSSID = "a"
    /\ ProvisioningActive

\* the step served a request
ServedStep == pc = "handleClient" /\ lastRequest'.path # ""

\* the device state a request without side effects leaves alone
DeviceUnchanged ==
    UNCHANGED <<nvs, credVars, wifiMode, linkUp, serverRunning,
                _isFirebaseInitialized>>

\* C14 as stated: GET / is answered 200, every request that is neither
\* GET / nor POST /save_config is answered 404 'Not found', and both leave
\* the device state unchanged.
C14_OnlyGetRootServed ==
    [][ServedStep =>
        LET req == lastRequest'
            getRoot == req.method = "GET" /\ req.path = "/"
            postSave == req.method = "POST" /\ req.path = "/save_config"
        IN  /\ getRoot => lastResponse'.code = 200
            /\ (~getRoot /\ ~postSave) =>
                  lastResponse' = [code |-> 404, type |-> "text/plain",
                                   body |-> [status |-> "Not found"]]
            /\ (getRoot \/ ~postSave) => DeviceUnchanged]_vars

\* C14 amended: every request to / (GET or any other method) is answered
\* 200 with the information page, every request to another path that is not
\* POST /save_config is answered 404 'Not found', and both leave the device
\* state unchanged.
C14_RootServedForAnyMethod ==
    [][ServedStep =>
        LET req == lastRequest'
            root == req.path = "/"
            postSave == req.method = "POST" /\ req.path = "/save_config"
        IN  /\ root => (lastResponse'.code = 200
                        /\ lastResponse'.type = "text/html")
            /\ (~root /\ ~postSave) =>
                  lastResponse' = [code |-> 404, type |-> "text/plain",
                                   body |-> [status |-> "Not found"]]
            /\ (root \/ ~postSave) => DeviceUnchanged]_vars

\* POST / answered with the page while a record is stored
C14_Witness ==
    /\ pc = "loopBody" /\ lastRequest.method = "POST" /\ lastRequest.path = "/"
    /\ lastResponse.code = 200 /\ DOMAIN nvs = NvsKeys /\ ProvisioningActive

LinkUpStep == pc = "loopBody" /\ pc' = "handleClient" /\ linkUp

\* C16 as stated: every loop body that finds the link up leaves exactly one
\* Firebase.begin call made in the current connection lifetime, also when
\* the link was lost and came back between two link checks of the loop.
C16_OneInitPerLifetime ==
    [][LinkUpStep => sessionInits' = 1]_vars

\* the step is a loop body that found the station link down
LinkDownStep == pc = "loopBody" /\ pc' = "handleClient" /\ ~linkUp

\* C17: a loop body that finds the link down with no stored network name
\* makes no connect attempt, and every loop body that finds the link down
\* and makes no connect attempt ends in access-point mode with the server
\* running.
C17_LinkDownServesProvisioning ==
    [][LinkDownStep =>
        /\ storedSSID = "" => ~conn'.called
        /\ ~conn'.called => ProvisioningActive']_vars

\* an empty network name was submitted and its connect failed; the loop
\* body that followed left provisioning served
C17_Witness ==
    /\ pc = "handleClient" /\ lastRequest = NoRequest
    /\ lastAccepted.valid /\ storedSSID = "" /\ nvs["ssid"] = ""
    /\ attempted /\ ~conn.called /\ ~linkUp /\ ProvisioningActive

\* C18: a loop body that finds the link down with the radio in station mode
\* and a stored network name leaves the latch false and makes one
\* connectToWiFi call of at most 40 polls.
C18_LinkDownReconnects ==
    [][(LinkDownStep /\ wifiMode = "STA" /\ storedSSID # "") =>
        /\ ~_isFirebaseInitialized'
        /\ conn'.called /\ attempted'
        /\ conn'.polls <= 40
        /\ (conn'.ok => (wifiMode' = "STA" /\ linkUp'))]_vars

\* the link of an accepted network dropped and the loop reconnected
C18_Witness ==
    /\ pc = "handleClient" /\ lastAccepted.valid /\ lastRequest = NoRequest
    /\ conn.called /\ conn.ok /\ conn.polls = 0
    /\ wifiMode = "STA" /\ linkUp /\ ~_isFirebaseInitialized /\ ~linkSeen

\* C19: a cloud write (updateMainDeviceDocument or addHistoryEntryToFirebase)
\* is made only by a loop body that found the station link up and
\* Firebase.ready() true; none is made in access-point mode or while
\* authentication is pending.
C19_WritesGated ==
    [][((fastLog' # fastLog \/ histLog' # histLog) /\ pc' # "boot") =>
        /\ pc = "loopBody" /\ linkUp /\ wifiMode = "STA"
        /\ eval'.ready /\ _isFirebaseInitialized']_vars

\* both writes made by one loop body with the link up and the session ready
C19_Witness ==
    /\ pc = "handleClient" /\ wifiMode = "STA" /\ linkUp
    /\ _isFirebaseInitialized /\ eval.ready
    /\ histLog.n = 1 /\ histLog.t = eval.t /\ fastLog.n = 1
    /\ fastLog.t = eval.t

\* the step is a loop body that called addHistoryEntryToFirebase
HistoryCallStep == pc = "loopBody" /\ histLog'.flip # histLog.flip

\* C20: every history call, failed or not, leaves the last sent weight at
\* the submitted weight and the last send time at the time after the call;
\* a call that follows a failed one differs from it by at least 250 g or
\* comes at least 300000 ms later.
C20_BookkeepingIgnoresResult ==
    [][HistoryCallStep =>
        /\ _lastSentHistoryWeight' = histLog'.w
        /\ lastHistorySendTimestamp' = now'
        /\ lastHistorySendTimestamp' >= histLog'.t
        /\ (histLog.n = 1 /\ ~histLog.ok) =>
              \/ Abs(histLog'.w - histLog.w) >= 250
              \/ histLog'.t - histLog.t >= 300000]_vars

\* a failed call, and 60 s later an evaluation with the same weight that
\* made no call
C20_Witness ==
    /\ pc = "handleClient" /\ eval.ready
    /\ histLog.n = 1 /\ ~histLog.ok
    /\ eval.t = histLog.t + 60000 /\ eval.w = histLog.w
    /\ _lastSentHistoryWeight = histLog.w

\* position of the call op in a sequence of calls (0: not made)
RECURSIVE StepAt(_, _, _)
StepAt(steps, op, i) ==
    IF i > Len(steps) THEN 0
    ELSE IF steps[i].op = op THEN i
    ELSE StepAt(steps, op, i + 1)

ConnectStep == (BootStep \/ AcceptedStep \/ LinkDownStep) /\ conn'.called

\* C22: a connectToWiFi call makes at most 40 status polls, returns true
\* iff the link is up when it reads the status after the polling, and is
\* over within the step that made it: that step serves no request other
\* than the submission that caused it and makes no cloud write.
C22_ConnectBounded ==
    [][ConnectStep =>
        /\ conn'.polls >= 0 /\ conn'.polls <= 40
        /\ conn'.ok <=> conn'.up
        /\ conn'.ok <=> linkUp'
        /\ lastRequest'.path # "" => AcceptedStep
        /\ ~eval'.ready
        /\ UNCHANGED <<fastLog, histLog>>
        /\ pc' \in {"handleClient", "loopBody"}]_vars

\* the link came up only after the 40th poll: the call still returned true
C22_Witness ==
    /\ pc = "handleClient" /\ lastRequest = NoRequest
    /\ conn.called /\ conn.polls = 40 /\ conn.ok
    /\ linkUp /\ wifiMode = "STA" /\ ~serverRunning

\* C23: after a failed updateMainDeviceDocument call (made early enough for
\* a next tick to fall before the horizon), another call is made, unless the
\* link is found down or an iteration finds Firebase.ready() false.
C23_FastCadenceSurvivesFailure ==
    \A f \in BOOLEAN :
        (fastLog.n = 1 /\ ~fastLog.ok /\ fastLog.flip = f
            /\ fastLog.t <= FastHorizon - LiveSlack)
        ~> (\/ fastLog.flip # f
            \/ ~linkUp
            \/ (pc = "handleClient" /\ ~eval.ready))

\* a second call, made 10 s or more after an early call that failed
C23_Witness ==
    /\ pc = "handleClient" /\ linkUp /\ eval.ready
    /\ fastLog.n = 1 /\ ~fastLog.pok /\ fastLog.flip = FALSE
    /\ fastLog.t >= FastHorizon - LiveSlack + CURRENT_WEIGHT_UPDATE_INTERVAL_MS

\* the step is the first addHistoryEntryToFirebase call since boot
FirstHistoryCall == pc = "loopBody" /\ histLog.n = 0 /\ histLog'.n = 1

\* the reading and time of the call against the values setup left
MovedOrElapsed ==
    \/ Abs(histLog'.w - _lastSentHistoryWeight)
           >= WEIGHT_CHANGE_THRESHOLD_GRAMS
    \/ histLog'.t - lastHistorySendTimestamp
           >= MAX_FIREBASE_HISTORY_INTERVAL_MS

FastCallStep == pc = "loopBody" /\ fastLog'.flip # fastLog.flip

\* C25 as stated: the time a fast update takes does not push back the due
\* time of the next one: each update moves the due time
\* (lastCurrentWeightUpdateTimestamp + 10000) forward by exactly 10000 ms,
\* so the n-th update is due n x 10000 ms after the timer was armed.
C25_NoDrift ==
    [][FastCallStep =>
        lastCurrentWeightUpdateTimestamp' =
            lastCurrentWeightUpdateTimestamp
                + CURRENT_WEIGHT_UPDATE_INTERVAL_MS]_vars

\* the store holds a record written by a submission answered 200
StoreHoldsSubmission == DOMAIN nvs = NvsKeys

\* C26 as stated: whatever values a submission answered 200 has stored,
\* empty strings included, a later boot without the forced-provisioning
\* input attempts a station connection with the stored network name and
\* password.
C26_AcceptedMeansConfigured ==
    [][(BootStep /\ ~boot'.forced /\ StoreHoldsSubmission) =>
        (/\ conn'.called
         /\ storedSSID' = nvs[NVS_SSID_KEY]
         /\ storedPassword' = nvs[NVS_PASS_KEY])]_vars

\* the five values as setup() would read them from the store
StoredRecord ==
    [ssid     |-> getString(nvs, NVS_SSID_KEY, ""),
     pass     |-> getString(nvs, NVS_PASS_KEY, ""),
     name     |-> getString(nvs, NVS_DEV_NAME_KEY, DEFAULT_DEVICE_NAME),
     email    |-> getString(nvs, NVS_FIREBASE_EMAIL_KEY, ""),
     fbpw     |-> getString(nvs, NVS_FIREBASE_PASS_KEY, "")]

\* the five working copies
WorkingRecord ==
    [ssid     |-> storedSSID,
     pass     |-> storedPassword,
     name     |-> storedDeviceName,
     email    |-> storedFirebaseEmail,
     fbpw     |-> storedFirebasePassword]

\* C27: from the end of boot on, at every loop-iteration boundary the five
\* working copies equal the store's contents, with "Unnamed Device" and the
\* empty string standing for absent keys.
C27_WorkingCopiesMirrorStore ==
    pc # "boot" => WorkingRecord = StoredRecord

\* a store erased by the forced reset, then a submission accepted whose
\* connect failed
C27_Witness ==
    /\ pc = "loopBody" /\ boot.forced /\ boot.hadPair
    /\ lastAccepted.valid /\ conn.called /\ ~conn.ok
    /\ DOMAIN nvs = NvsKeys /\ storedSSID = "a" /\ storedPassword = ""
    /\ ProvisioningActive

\* the step makes a cloud write
CloudWriteStep ==
    pc' = "handleClient" /\ (FastCallStep \/ HistoryCallStep)

\* the cloud credentials the store holds
StoredAccount ==
    [email |-> getString(nvs, NVS_FIREBASE_EMAIL_KEY, ""),
     password |-> getString(nvs, NVS_FIREBASE_PASS_KEY, "")]

\* C28: an accepted submission leaves no session standing, and every cloud
\* write is made under a session begun since the stored cloud credentials
\* last changed, with the email and secret the store holds.
C28_WritesUnderCurrentAccount ==
    /\ [][AcceptedStep =>
            (~_isFirebaseInitialized' /\ ~session'.begun)]_vars
    /\ [][CloudWriteStep =>
            (/\ session'.begun
             /\ session'.email = StoredAccount.email
             /\ session'.password = StoredAccount.password)]_vars

\* a write under the account of a submission that replaced the one the
\* device booted with
C28_Witness ==
    /\ pc = "handleClient" /\ histLog.n = 1 /\ histLog.t = eval.t
    /\ eval.ready /\ boot.hadPair /\ lastAccepted.valid
    /\ lastAccepted.args["fb_email"] = "" /\ session.begun
    /\ session.email = "" /\ nvs[NVS_FIREBASE_EMAIL_KEY] = ""

\* C29: each of the three elapsed-time checks, made on the wrapped counter
\* and the wrapped timestamp, says "due" exactly when the uptime passed
\* since the timestamp was taken has reached the interval, as long as that
\* uptime is below one period of the counter.
C29_ChecksSurviveWrap ==
    /\ (now - stamped.display < ULONG_MODULUS) =>
        (DisplayDue(Millis(now), lastDisplayUpdateTime)
            <=> now - stamped.display >= displayUpdateInterval)
    /\ (now - stamped.fast < ULONG_MODULUS) =>
        (FastUpdateDue(Millis(now), lastCurrentWeightUpdateTimestamp)
            <=> now - stamped.fast >= CURRENT_WEIGHT_UPDATE_INTERVAL_MS)
    /\ (now - stamped.history < ULONG_MODULUS) =>
        (HistoryDue(_lastSentHistoryWeight, _lastSentHistoryWeight,
                    Millis(now), lastHistorySendTimestamp)
            <=> now - stamped.history >= MAX_FIREBASE_HISTORY_INTERVAL_MS)

\* the counter has wrapped since all three timestamps were taken, and all
\* three actions are due
C29_Witness ==
    /\ now >= ULONG_MODULUS
    /\ Millis(now) < lastDisplayUpdateTime
    /\ Millis(now) < lastCurrentWeightUpdateTimestamp
    /\ Millis(now) < lastHistorySendTimestamp
    /\ now - stamped.history >= MAX_FIREBASE_HISTORY_INTERVAL_MS
    /\ HistoryDue(_lastSentHistoryWeight, _lastSentHistoryWeight,
                  Millis(now), lastHistorySendTimestamp)
    /\ DisplayDue(Millis(now), lastDisplayUpdateTime)
    /\ FastUpdateDue(Millis(now), lastCurrentWeightUpdateTimestamp)

\* C30 as stated: for each device at most one showNotification call is made
\* while its level stays at or below the threshold, however the suspended
\* invocations of _checkAndNotifyLowGas interleave.
C30_OneNotificationPerExcursion ==
    \A id \in DeviceIds : shown[id] <= 1

====
